---------------------------- MODULE Spec2Model ----------------------------
(***************************************************************************)
(* Model of the light service of light/Light.cpp: the dispatch of          *)
(* setLight, the arbitration of the shared RGB LED between the             *)
(* notification, attention and battery sources, the LCD / keyboard /       *)
(* button backlights, and the slider monitor thread.                       *)
(*                                                                         *)
(* A 32-bit colour is kept as the pair <<hi, lo>> of its 16-bit halves     *)
(* (colour = hi * 65536 + lo), because TLC's integers are signed 32-bit   *)
(* and 0xFFFFFFFF does not fit; shifts and masks are computed on the       *)
(* halves.                                                                 *)
(***************************************************************************)
EXTENDS Integers, Sequences, FiniteSets, TLC

VARIABLES
    mNotificationState,  \* Light::mNotificationState (LightState)
    mAttentionState,     \* Light::mAttentionState (LightState)
    mBatteryState,       \* Light::mBatteryState (LightState)
    mLcdBacklightOn,     \* Light::mLcdBacklightOn
    mSliderOpen,         \* Light::mSliderOpen
    lcdMax,              \* mLcdBacklight.second: the panel's maximum brightness
    sinks,               \* last value held by every output stream
    call,                \* the last completed handler: what was asked, returned, written
    renderPath,          \* branch taken by the last shared-LED render
    mpc,                 \* sliderMonitorThread: position in the thread function
    fd,                  \* sliderMonitorThread / openInputDeviceByName: fd
    n,                   \* openInputDeviceByName: n
    openFds,             \* descriptors the monitor thread has open
    devs,                \* environment: what /dev/input/event<i> is
    readFault,           \* environment: reads of the input device fail
    everFailed,          \* history: the monitor has had an open or read failure
    mLock,               \* Light::mLock: the thread holding it, or NoThread
    tpc,                 \* per thread: position inside its handler
    treq,                \* per thread: the request it is serving
    tpend,               \* per thread: the sink writes its render still has to do
    wlog,                \* global order of sink writes, each tagged with its call
    lastBacklight,       \* history: the state of the last BACKLIGHT request
    ncall,               \* number of handler calls the threads have begun
    peer                 \* a second run of the service from the same construction

vars == <<mNotificationState, mAttentionState, mBatteryState, mLcdBacklightOn,
          mSliderOpen, lcdMax, sinks, call, renderPath, mpc, fd, n, openFds,
          devs, readFault, everFailed, mLock, tpc, treq, tpend, wlog,
          lastBacklight, ncall, peer>>

arbiterVars == <<mNotificationState, mAttentionState, mBatteryState,
                 mLcdBacklightOn, mSliderOpen, sinks, call, renderPath,
                 lastBacklight>>
monitorVars == <<mpc, fd, n, openFds, everFailed>>
envVars     == <<devs, readFault>>
threadVars  == <<mLock, tpc, treq, tpend, wlog, ncall>>

-----------------------------------------------------------------------------
(* Program constants *)

RAMP_SIZE == 8
RAMP_STEP_DURATION == 50
BRIGHTNESS_RAMP == <<0, 12, 25, 37, 50, 72, 85, 100>>
DEFAULT_MAX_BRIGHTNESS == 255

\* android.hardware.light@2.0 Type: the five the constructor registers, and the rest
SupportedTypes == {"ATTENTION", "BACKLIGHT", "BATTERY", "BUTTONS", "NOTIFICATIONS"}
OtherTypes == {"KEYBOARD", "BLUETOOTH", "WIFI"}
Types == SupportedTypes \cup OtherTypes
LedTypes == {"ATTENTION", "BATTERY", "NOTIFICATIONS"}

-----------------------------------------------------------------------------
(* 32-bit colours as 16-bit halves *)

Pack(a, r, g, b) == <<a * 256 + r, g * 256 + b>>
\* color & 0x00ffffff
Mask24(color) == <<color[1] % 256, color[2]>>
\* (color >> 16) & 0xff, (color >> 8) & 0xff, color & 0xff, (color & 0xff000000) >> 24
Shr16And255(color) == color[1] % 256
Shr8And255(color) == (color[2] \div 256) % 256
And255(color) == color[2] % 256
Shr24(color) == color[1] \div 256
\* (r << 16) + (g << 8) + b for r, g, b in 0..255
FromRgb(r, g, b) == <<r, g * 256 + b>>
IsZero(color) == color[1] = 0 /\ color[2] = 0

LightState(color, flashMode, flashOnMs, flashOffMs) ==
    [color |-> color, flashMode |-> flashMode,
     flashOnMs |-> flashOnMs, flashOffMs |-> flashOffMs]


-----------------------------------------------------------------------------
(* Output streams.  A sink is <<member name, index>>; the index is 0 except *)
(* for the elements of the vector mButtonBacklight.                         *)

NumButtons == 2

LcdSink == <<"mLcdBacklight", 0>>
KbdSink == <<"mKeyboardBacklight", 0>>
ButtonSinks == {<<"mButtonBacklight", i>> : i \in 1..NumButtons}
Channels == <<"Red", "Green", "Blue">>
LedSink(c) == <<"m" \o c \o "Led", 0>>
BlinkSink(c) == <<"m" \o c \o "Blink", 0>>
DutySink(c) == <<"m" \o c \o "DutyPcts", 0>>
StartIdxSink(c) == <<"m" \o c \o "StartIdx", 0>>
PauseLoSink(c) == <<"m" \o c \o "PauseLo", 0>>
PauseHiSink(c) == <<"m" \o c \o "PauseHi", 0>>
RampStepSink(c) == <<"m" \o c \o "RampStepMs", 0>>
ChannelSet == {Channels[i] : i \in 1..3}
LedSinks == UNION {{LedSink(c), BlinkSink(c), DutySink(c), StartIdxSink(c),
                    PauseLoSink(c), PauseHiSink(c), RampStepSink(c)} : c \in ChannelSet}
SinkNames == {LcdSink, KbdSink} \cup ButtonSinks \cup LedSinks

\* what a stream holds before the service has written to it
Unwritten == -1
NoDuty == <<>>

\* stream << value << std::endl
W(sink, val) == [sink |-> sink, val |-> val]

RECURSIVE Apply(_, _)
Apply(s, ws) ==
    IF ws = <<>> THEN s
    ELSE Apply([s EXCEPT ![ws[1].sink] = ws[1].val], Tail(ws))

-----------------------------------------------------------------------------
(* Helpers of the anonymous namespace *)

\* mutant of rgbToBrightness: the red shift is not masked, the alpha byte leaks in
rgbToBrightnessNoMask(state) ==
    (77 * state.color[1] + 150 * Shr8And255(state.color) + 29 * And255(state.color)) \div 256

rgbToBrightness(state) ==
    LET color == Mask24(state.color)
    IN (77 * Shr16And255(color) + 150 * Shr8And255(color) + 29 * And255(color)) \div 256

isLit(state) == ~IsZero(Mask24(state.color))

\* mutant of getScaledDutyPcts: the ramp is scaled by brightness / 256
getScaledDutyPctsBy256(brightness) ==
    [i \in 1..RAMP_SIZE |-> (BRIGHTNESS_RAMP[i] * brightness) \div 256]

\* the comma-separated list, as the sequence of its numbers
getScaledDutyPcts(brightness) ==
    [i \in 1..RAMP_SIZE |-> (BRIGHTNESS_RAMP[i] * brightness) \div 255]

-----------------------------------------------------------------------------
(* Shared LED render.  Both operators give the writes in program order and  *)
(* the branch taken.                                                         *)

\* mutant of RampTiming: the ramp is never shrunk to fit the on-time
RampTimingNoShrink(onMs) ==
    [stepDuration |-> RAMP_STEP_DURATION,
     pauseHi |-> onMs - (RAMP_STEP_DURATION * RAMP_SIZE * 2)]

\* mutant of RampTiming: the shrunk step divides by the ramp size, not twice it
RampTimingHalfRamp(onMs) ==
    LET stepDuration == RAMP_STEP_DURATION
        pauseHi == onMs - (stepDuration * RAMP_SIZE * 2)
    IN IF stepDuration * RAMP_SIZE * 2 > onMs
       THEN [stepDuration |-> onMs \div RAMP_SIZE, pauseHi |-> 0]
       ELSE [stepDuration |-> stepDuration, pauseHi |-> pauseHi]

\* lines 343-349: the ramp step and the hold at full brightness, in ms
RampTiming(onMs) ==
    LET stepDuration == RAMP_STEP_DURATION
        pauseHi == onMs - (stepDuration * RAMP_SIZE * 2)
    IN IF stepDuration * RAMP_SIZE * 2 > onMs
       THEN [stepDuration |-> onMs \div (RAMP_SIZE * 2), pauseHi |-> 0]
       ELSE [stepDuration |-> stepDuration, pauseHi |-> pauseHi]

setSpeakerLightLocked(state) ==
    LET timed == state.flashMode = "TIMED"
        onMs == IF timed THEN state.flashOnMs ELSE 0
        offMs == IF timed THEN state.flashOffMs ELSE 0
        red == Shr16And255(state.color)
        green == Shr8And255(state.color)
        blue == And255(state.color)
        blink == onMs > 0 /\ offMs > 0
        ramp == RampTiming(onMs)
        chan(c, idx, v) == <<W(StartIdxSink(c), idx), W(DutySink(c), getScaledDutyPcts(v)),
                             W(PauseLoSink(c), offMs), W(PauseHiSink(c), ramp.pauseHi),
                             W(RampStepSink(c), ramp.stepDuration)>>
    IN IF blink
       THEN [path |-> "blink",
             writes |-> chan("Red", 0, red) \o chan("Green", RAMP_SIZE, green)
                          \o chan("Blue", RAMP_SIZE * 2, blue)]
       ELSE [path |-> "steady",
             writes |-> (IF red = 0 /\ green = 0 /\ blue = 0
                         THEN <<W(BlinkSink("Red"), 0), W(BlinkSink("Green"), 0),
                                W(BlinkSink("Blue"), 0)>>
                         ELSE <<>>)
                        \o <<W(LedSink("Red"), red), W(LedSink("Green"), green),
                             W(LedSink("Blue"), blue)>>]

\* mutant of LightsOff: the blink-enable streams are left as they are
LightsOffLedOnly ==
    <<W(LedSink("Red"), 0), W(LedSink("Green"), 0), W(LedSink("Blue"), 0)>>

LightsOff ==
    <<W(LedSink("Red"), 0), W(LedSink("Green"), 0), W(LedSink("Blue"), 0),
      W(BlinkSink("Red"), 0), W(BlinkSink("Green"), 0), W(BlinkSink("Blue"), 0)>>

\* mutant of setSpeakerBatteryLightLocked: attention is asked before notification
setSpeakerBatteryLightLockedAttnFirst(notif, attn, batt) ==
    IF isLit(attn) THEN setSpeakerLightLocked(attn)
    ELSE IF isLit(notif) THEN setSpeakerLightLocked(notif)
    ELSE IF isLit(batt) THEN setSpeakerLightLocked(batt)
    ELSE [path |-> "off", writes |-> LightsOff]

setSpeakerBatteryLightLocked(notif, attn, batt) ==
    IF isLit(notif) THEN setSpeakerLightLocked(notif)
    ELSE IF isLit(attn) THEN setSpeakerLightLocked(attn)
    ELSE IF isLit(batt) THEN setSpeakerLightLocked(batt)
    ELSE [path |-> "off", writes |-> LightsOff]

-----------------------------------------------------------------------------
(* The record of the last completed handler.  wasLit: for a request on one  *)
(* of the three LED sources, whether that source's stored state was lit     *)
(* before the call.  prevPath: the branch of the render before this one.    *)

NoState == LightState(<<0, 0>>, "NONE", 0, 0)

Call(op, type, state, ret, open, writes, wasLit, prevPath) ==
    [op |-> op, type |-> type, state |-> state, ret |-> ret, open |-> open,
     writes |-> writes, wasLit |-> wasLit, prevPath |-> prevPath]

\* history: the last BACKLIGHT request, if there was one
NoBacklight == [seen |-> FALSE, state |-> NoState]

NoCall == Call("none", "", NoState, "", FALSE, <<>>, FALSE, "none")

-----------------------------------------------------------------------------
(* Handlers.  Each runs under mLock from its first to its last statement,   *)
(* so it is one step here; the steps of the lock are the thread actions     *)
(* further down.  A handler's parameter `type` is the key setLight found it *)
(* under; it goes into the call record and nowhere else.                    *)

\* mutant of setKeyboardBacklightLocked: the LCD flag is not consulted
setKeyboardBacklightLockedSliderOnly(sliderOpen, lcdOn) ==
    <<W(KbdSink, IF sliderOpen THEN DEFAULT_MAX_BRIGHTNESS ELSE 0)>>

setKeyboardBacklightLocked(sliderOpen, lcdOn) ==
    <<W(KbdSink, IF sliderOpen /\ lcdOn THEN DEFAULT_MAX_BRIGHTNESS ELSE 0)>>

\* mutant of ApplyUserBrightness: channels are rounded to nearest, not truncated
ApplyUserBrightnessRounded(c) ==
    LET brightness == Shr24(c)
        r1 == (Shr16And255(c) * brightness + 127) \div 255
        g1 == (Shr8And255(c) * brightness + 127) \div 255
        b1 == (And255(c) * brightness + 127) \div 255
    IN IF brightness > 0 /\ brightness < 255 THEN FromRgb(r1, g1, b1) ELSE c

\* the colour setNotificationLight stores
ApplyUserBrightness(c) ==
    LET brightness == Shr24(c)
        color == Mask24(c)
        r0 == Shr16And255(color)
        g0 == Shr8And255(color)
        b0 == And255(color)
        r1 == IF r0 > 0 THEN (r0 * brightness) \div 255 ELSE r0
        g1 == IF g0 > 0 THEN (g0 * brightness) \div 255 ELSE g0
        b1 == IF b0 > 0 THEN (b0 * brightness) \div 255 ELSE b0
    IN IF brightness > 0 /\ brightness < 255 THEN FromRgb(r1, g1, b1) ELSE c

\* mutant of LedHandler: the keyboard backlight is recomputed after the render
LedHandlerWithKeyboard(type, stored, notif, attn, batt, state) ==
    LET r == setSpeakerBatteryLightLocked(notif, attn, batt)
        ws == r.writes \o setKeyboardBacklightLocked(mSliderOpen, mLcdBacklightOn)
    IN /\ mNotificationState' = notif
       /\ mAttentionState' = attn
       /\ mBatteryState' = batt
       /\ sinks' = Apply(sinks, ws)
       /\ renderPath' = r.path
       /\ call' = Call("setLight", type, state, "SUCCESS", FALSE, ws,
                       isLit(stored), renderPath)
       /\ UNCHANGED <<mLcdBacklightOn, mSliderOpen, lastBacklight>>

LedHandler(type, stored, notif, attn, batt, state) ==
    LET r == setSpeakerBatteryLightLocked(notif, attn, batt)
    IN /\ mNotificationState' = notif
       /\ mAttentionState' = attn
       /\ mBatteryState' = batt
       /\ sinks' = Apply(sinks, r.writes)
       /\ renderPath' = r.path
       /\ call' = Call("setLight", type, state, "SUCCESS", FALSE, r.writes,
                       isLit(stored), renderPath)
       /\ UNCHANGED <<mLcdBacklightOn, mSliderOpen, lastBacklight>>

setAttentionLight(type, state) ==
    LedHandler(type, mAttentionState,
               mNotificationState, state, mBatteryState, state)

setBatteryLight(type, state) ==
    LedHandler(type, mBatteryState,
               mNotificationState, mAttentionState, state, state)

setNotificationLight(type, state) ==
    LET localState == [state EXCEPT !.color = ApplyUserBrightness(state.color)]
    IN LedHandler(type, mNotificationState,
                  localState, mAttentionState, mBatteryState, state)

\* mutant of ScaleToPanel: the luminance is written as it is, for any panel
ScaleToPanelNone(brightness, max) == brightness

\* line 233, brightness * mLcdBacklight.second / DEFAULT_MAX_BRIGHTNESS in
\* uint32_t arithmetic: the product modulo 2^32, kept as 16-bit halves hi, lo
ScaleToPanel(brightness, max) ==
    LET low == brightness * (max % 65536)
        hi == (brightness * (max \div 65536) + low \div 65536) % 65536
        lo == low % 65536
    IN (hi \div DEFAULT_MAX_BRIGHTNESS) * 65536
          + ((hi % DEFAULT_MAX_BRIGHTNESS) * 65536 + lo) \div DEFAULT_MAX_BRIGHTNESS

setLcdBacklight(type, state) ==
    LET lcdOn == ~IsZero(state.color)
        b0 == rgbToBrightness(state)
        brightness == IF lcdMax # DEFAULT_MAX_BRIGHTNESS
                      THEN ScaleToPanel(b0, lcdMax)
                      ELSE b0
        ws == <<W(LcdSink, brightness)>> \o setKeyboardBacklightLocked(mSliderOpen, lcdOn)
    IN /\ mLcdBacklightOn' = lcdOn
       /\ sinks' = Apply(sinks, ws)
       /\ call' = Call("setLight", type, state, "SUCCESS", FALSE, ws,
                       FALSE, renderPath)
       /\ lastBacklight' = [seen |-> TRUE, state |-> state]
       /\ UNCHANGED <<mNotificationState, mAttentionState, mBatteryState,
                      mSliderOpen, renderPath>>

setButtonsBacklight(type, state) ==
    LET brightness == rgbToBrightness(state)
        ws == [i \in 1..NumButtons |-> W(<<"mButtonBacklight", i>>, brightness)]
    IN /\ sinks' = Apply(sinks, ws)
       /\ call' = Call("setLight", type, state, "SUCCESS", FALSE, ws,
                       FALSE, renderPath)
       /\ UNCHANGED <<mNotificationState, mAttentionState, mBatteryState,
                      mLcdBacklightOn, mSliderOpen, renderPath, lastBacklight>>

\* mutant of onSliderChanged: the shared LED is rendered again as well
onSliderChangedRerender(open) ==
    LET r == setSpeakerBatteryLightLocked(mNotificationState, mAttentionState,
                                          mBatteryState)
        ws == setKeyboardBacklightLocked(open, mLcdBacklightOn) \o r.writes
    IN /\ mSliderOpen' = open
       /\ sinks' = Apply(sinks, ws)
       /\ renderPath' = r.path
       /\ call' = Call("onSliderChanged", "", NoState, "", open, ws, FALSE, renderPath)
       /\ UNCHANGED <<mNotificationState, mAttentionState, mBatteryState,
                      mLcdBacklightOn, lastBacklight>>

onSliderChanged(open) ==
    LET ws == setKeyboardBacklightLocked(open, mLcdBacklightOn)
    IN /\ mSliderOpen' = open
       /\ sinks' = Apply(sinks, ws)
       /\ call' = Call("onSliderChanged", "", NoState, "", open, ws, FALSE, renderPath)
       /\ UNCHANGED <<mNotificationState, mAttentionState, mBatteryState,
                      mLcdBacklightOn, renderPath, lastBacklight>>

\* mutant of mLights: KEYBOARD is registered too, bound to the LCD handler
mLightsWithKeyboard ==
    [t \in SupportedTypes \cup {"KEYBOARD"} |->
        CASE t = "ATTENTION" -> "setAttentionLight"
          [] t = "BACKLIGHT" -> "setLcdBacklight"
          [] t = "BATTERY" -> "setBatteryLight"
          [] t = "BUTTONS" -> "setButtonsBacklight"
          [] t = "NOTIFICATIONS" -> "setNotificationLight"
          [] t = "KEYBOARD" -> "setLcdBacklight"]

\* the keys of Light::mLights, each with the member function bound to it
mLights ==
    [t \in SupportedTypes |->
        CASE t = "ATTENTION" -> "setAttentionLight"
          [] t = "BACKLIGHT" -> "setLcdBacklight"
          [] t = "BATTERY" -> "setBatteryLight"
          [] t = "BUTTONS" -> "setButtonsBacklight"
          [] t = "NOTIFICATIONS" -> "setNotificationLight"]

Invoke(fn, type, state) ==
    CASE fn = "setAttentionLight" -> setAttentionLight(type, state)
      [] fn = "setLcdBacklight" -> setLcdBacklight(type, state)
      [] fn = "setBatteryLight" -> setBatteryLight(type, state)
      [] fn = "setButtonsBacklight" -> setButtonsBacklight(type, state)
      [] fn = "setNotificationLight" -> setNotificationLight(type, state)

setLight(type, state) ==
    IF type \notin DOMAIN mLights
    THEN /\ call' = Call("setLight", type, state, "LIGHT_NOT_SUPPORTED", FALSE, <<>>,
                         FALSE, renderPath)
         /\ UNCHANGED <<mNotificationState, mAttentionState, mBatteryState,
                        mLcdBacklightOn, mSliderOpen, sinks, renderPath,
                        lastBacklight>>
    ELSE Invoke(mLights[type], type, state)

-----------------------------------------------------------------------------
(* The slider monitor thread.  /dev/input/event<i> exists for i below       *)
(* MaxDev at most; devs[i + 1] says what it is.  A descriptor remembers the *)
(* device it was opened on and whether that device is still there.          *)

MaxDev == 2
DevKinds == {"absent", "other", "gpio-keys"}

EV_SYN == 0
EV_SW == 5
SW_LID == 0
\* input_event records <<type, code, value>> the device can deliver: the lid
\* switch with values 0, 1 and 2, another switch (code 1), a sync report, a
\* key (type 1)
Events == {<<EV_SW, SW_LID, 0>>, <<EV_SW, SW_LID, 1>>, <<EV_SW, SW_LID, 2>>,
           <<EV_SW, 1, 0>>, <<EV_SYN, 0, 0>>, <<1, SW_LID, 0>>}

Exists(i) == i < MaxDev /\ devs[i + 1] # "absent"
Desc(i) == CHOOSE d \in openFds : d.fd = i

\* line 106, lines 65-66: enter openInputDeviceByName
MonRestart ==
    /\ mpc = "restart"
    /\ fd' = -1
    /\ n' = 0
    /\ mpc' = "open"
    /\ UNCHANGED <<openFds, everFailed>>
    /\ UNCHANGED <<arbiterVars, envVars, threadVars, lcdMax, peer>>

\* lines 67-73: open the next event device; none left: return -1, log, sleep
MonOpen ==
    /\ mpc = "open"
    /\ n' = n + 1
    /\ IF Exists(n)
       THEN /\ fd' = n
            /\ openFds' = openFds \cup {[fd |-> n, name |-> devs[n + 1], alive |-> TRUE]}
            /\ mpc' = "ioctl"
            /\ UNCHANGED everFailed
       ELSE /\ fd' = -1
            /\ mpc' = "sleep"
            /\ everFailed' = TRUE
            /\ UNCHANGED openFds
    /\ UNCHANGED <<arbiterVars, envVars, threadVars, lcdMax, peer>>

\* mutant of MonIoctl: a descriptor of another device is left open
MonIoctlNoClose ==
    /\ mpc = "ioctl"
    /\ IF Desc(fd).alive /\ Desc(fd).name = "gpio-keys"
       THEN /\ mpc' = "read"
            /\ UNCHANGED <<fd, openFds>>
       ELSE /\ fd' = -1
            /\ mpc' = "open"
            /\ UNCHANGED openFds
    /\ UNCHANGED <<n, everFailed>>
    /\ UNCHANGED <<arbiterVars, envVars, threadVars, lcdMax, peer>>

\* lines 74-83: compare the device's name; a mismatch closes the descriptor
MonIoctl ==
    /\ mpc = "ioctl"
    /\ IF Desc(fd).alive /\ Desc(fd).name = "gpio-keys"
       THEN /\ mpc' = "read"
            /\ UNCHANGED <<fd, openFds>>
       ELSE /\ openFds' = openFds \ {Desc(fd)}
            /\ fd' = -1
            /\ mpc' = "open"
    /\ UNCHANGED <<n, everFailed>>
    /\ UNCHANGED <<arbiterVars, envVars, threadVars, lcdMax, peer>>

\* mutant of MonSleep: after a failure the thread function returns
MonSleepExit ==
    /\ mpc = "sleep"
    /\ mpc' = "done"
    /\ UNCHANGED <<fd, n, openFds, everFailed>>
    /\ UNCHANGED <<arbiterVars, envVars, threadVars, lcdMax, peer>>

\* lines 109-110 and 119-120: sleep(1); goto restart
MonSleep ==
    /\ mpc = "sleep"
    /\ mpc' = "restart"
    /\ UNCHANGED <<fd, n, openFds, everFailed>>
    /\ UNCHANGED <<arbiterVars, envVars, threadVars, lcdMax, peer>>

readEvent(d) == d.alive /\ ~readFault

\* lines 116-121: a failed read closes the descriptor and sleeps
MonReadFail ==
    /\ mpc = "read"
    /\ ~readEvent(Desc(fd))
    /\ openFds' = openFds \ {Desc(fd)}
    /\ mpc' = "sleep"
    /\ everFailed' = TRUE
    /\ UNCHANGED <<fd, n>>
    /\ UNCHANGED <<arbiterVars, envVars, threadVars, lcdMax, peer>>

\* mutant of Wanted: the event's code is not looked at
WantedAnySwitch(ev) == ~(ev[1] # EV_SW)

Wanted(ev) == ~(ev[1] # EV_SW \/ ev[2] # SW_LID)

\* lines 116-128: one event read; the callback runs before the next read
MonRead(ev) ==
    /\ mpc = "read"
    /\ readEvent(Desc(fd))
    /\ IF Wanted(ev)
       THEN onSliderChanged(ev[3] = 0)
       ELSE /\ call' = Call("ignoredEvent", "", NoState, "", FALSE, <<>>, FALSE, renderPath)
            /\ UNCHANGED <<mNotificationState, mAttentionState, mBatteryState,
                           mLcdBacklightOn, mSliderOpen, sinks, renderPath,
                           lastBacklight>>
    /\ UNCHANGED <<monitorVars, envVars, threadVars, lcdMax, peer>>

(* Environment: a device node appears, disappears or is replaced; reads     *)
(* start or stop failing.                                                    *)
DevChange(i, k) ==
    /\ devs[i + 1] # k
    /\ devs' = [devs EXCEPT ![i + 1] = k]
    /\ openFds' = {IF d.fd = i THEN [d EXCEPT !.alive = FALSE] ELSE d : d \in openFds}
    /\ UNCHANGED <<readFault, mpc, fd, n, everFailed>>
    /\ UNCHANGED <<arbiterVars, threadVars, lcdMax, peer>>

FaultChange ==
    /\ readFault' = ~readFault
    /\ UNCHANGED <<devs, monitorVars, arbiterVars, threadVars, lcdMax, peer>>

-----------------------------------------------------------------------------
(* Construction.  The constructor's initialiser list sets the two flags and *)
(* moves the streams in; the three LightState members are not in it, so     *)
(* they start with whatever the allocation holds: any LightState.           *)

NumReqThreads == 2
MonitorThread == 0
ReqThreads == 1..NumReqThreads
Threads == {MonitorThread} \cup ReqThreads
NoThread == NumReqThreads + 1

\* what a thread is serving: the handler, its argument, the number of the call
Req(id, fn, state, open) == [id |-> id, fn |-> fn, state |-> state, open |-> open]
NoReq == Req(0, "", NoState, FALSE)

InitWith(panelMaxima, stored, devConfigs) ==
    /\ mNotificationState \in stored
    /\ mAttentionState \in stored
    /\ mBatteryState \in stored
    /\ mLcdBacklightOn = FALSE
    /\ mSliderOpen = FALSE
    /\ lcdMax \in panelMaxima
    /\ sinks = [s \in SinkNames |->
                  IF s \in {DutySink(c) : c \in ChannelSet} THEN NoDuty ELSE Unwritten]
    /\ call = NoCall
    /\ renderPath = "none"
    /\ lastBacklight = NoBacklight
    /\ mpc = "restart"
    /\ fd = -1
    /\ n = 0
    /\ openFds = {}
    /\ everFailed = FALSE
    /\ devs \in devConfigs
    /\ readFault = FALSE
    /\ mLock = NoThread
    /\ tpc = [t \in Threads |-> "idle"]
    /\ treq = [t \in Threads |-> NoReq]
    /\ tpend = [t \in Threads |-> <<>>]
    /\ wlog = <<>>
    /\ ncall = 0
    /\ peer = [mNotificationState |-> NoState,
               mAttentionState |-> NoState,
               mBatteryState |-> NoState,
               sinks |-> sinks, rendered |-> FALSE]

-----------------------------------------------------------------------------
(* The handlers statement by statement, for the threads that run them       *)
(* concurrently.  tpc: idle -> lock -> store (-> store2) -> render -> write  *)
(* -> idle.  The call record and the histories are left alone here.          *)

MaxCalls == 3

ThreadFrame ==
    UNCHANGED <<call, renderPath, lastBacklight, lcdMax, envVars, monitorVars, peer>>

\* setLight, lines 187-193: the handler of a registered type is entered
Begin(t, type, state) ==
    /\ tpc[t] = "idle"
    /\ ncall < MaxCalls
    /\ type \in DOMAIN mLights
    /\ ncall' = ncall + 1
    /\ treq' = [treq EXCEPT ![t] = Req(ncall + 1, mLights[type], state, FALSE)]
    /\ tpc' = [tpc EXCEPT ![t] = "lock"]
    /\ UNCHANGED <<mLock, tpend, wlog, sinks>>
    /\ UNCHANGED <<mNotificationState, mAttentionState, mBatteryState,
                   mLcdBacklightOn, mSliderOpen>>
    /\ ThreadFrame

\* lines 116-127 on the monitor thread: a wanted event enters onSliderChanged
MonReadT(ev) ==
    /\ mpc = "read"
    /\ tpc[MonitorThread] = "idle"
    /\ ncall < MaxCalls
    /\ readEvent(Desc(fd))
    /\ Wanted(ev)
    /\ ncall' = ncall + 1
    /\ treq' = [treq EXCEPT ![MonitorThread] =
                   Req(ncall + 1, "onSliderChanged", NoState, ev[3] = 0)]
    /\ tpc' = [tpc EXCEPT ![MonitorThread] = "lock"]
    /\ UNCHANGED <<mLock, tpend, wlog, sinks>>
    /\ UNCHANGED <<mNotificationState, mAttentionState, mBatteryState,
                   mLcdBacklightOn, mSliderOpen>>
    /\ ThreadFrame

\* mutant of Acquire: the lock is taken without waiting for its holder
AcquireNoWait(t) ==
    /\ tpc[t] = "lock"
    /\ mLock' = t
    /\ tpc' = [tpc EXCEPT ![t] = "store"]
    /\ UNCHANGED <<treq, tpend, wlog, ncall, sinks>>
    /\ UNCHANGED <<mNotificationState, mAttentionState, mBatteryState,
                   mLcdBacklightOn, mSliderOpen>>
    /\ ThreadFrame

\* std::lock_guard<std::mutex> lock(mLock), the first statement of every handler
Acquire(t) ==
    /\ tpc[t] = "lock"
    /\ mLock = NoThread
    /\ mLock' = t
    /\ tpc' = [tpc EXCEPT ![t] = "store"]
    /\ UNCHANGED <<treq, tpend, wlog, ncall, sinks>>
    /\ UNCHANGED <<mNotificationState, mAttentionState, mBatteryState,
                   mLcdBacklightOn, mSliderOpen>>
    /\ ThreadFrame

\* the member a LightState handler assigns, with the value it assigns
Assigned(r) ==
    IF r.fn = "setNotificationLight"
    THEN [r.state EXCEPT !.color = ApplyUserBrightness(r.state.color)]
    ELSE r.state

\* the handler's assignment to its member.  The copy of a LightState is not
\* one store: the colour goes first, the flash fields in a second step.
Store(t) ==
    /\ tpc[t] = "store"
    /\ LET r == treq[t]
           v == Assigned(r)
       IN CASE r.fn = "setAttentionLight" ->
                 /\ mAttentionState' = [mAttentionState EXCEPT !.color = v.color]
                 /\ tpc' = [tpc EXCEPT ![t] = "store2"]
                 /\ UNCHANGED <<mNotificationState, mBatteryState, mLcdBacklightOn,
                                mSliderOpen>>
            [] r.fn = "setBatteryLight" ->
                 /\ mBatteryState' = [mBatteryState EXCEPT !.color = v.color]
                 /\ tpc' = [tpc EXCEPT ![t] = "store2"]
                 /\ UNCHANGED <<mNotificationState, mAttentionState, mLcdBacklightOn,
                                mSliderOpen>>
            [] r.fn = "setNotificationLight" ->
                 /\ mNotificationState' = [mNotificationState EXCEPT !.color = v.color]
                 /\ tpc' = [tpc EXCEPT ![t] = "store2"]
                 /\ UNCHANGED <<mAttentionState, mBatteryState, mLcdBacklightOn,
                                mSliderOpen>>
            [] r.fn = "setLcdBacklight" ->
                 /\ mLcdBacklightOn' = ~IsZero(r.state.color)
                 /\ tpc' = [tpc EXCEPT ![t] = "render"]
                 /\ UNCHANGED <<mNotificationState, mAttentionState, mBatteryState,
                                mSliderOpen>>
            [] r.fn = "setButtonsBacklight" ->
                 /\ tpc' = [tpc EXCEPT ![t] = "render"]
                 /\ UNCHANGED <<mNotificationState, mAttentionState, mBatteryState,
                                mLcdBacklightOn, mSliderOpen>>
            [] r.fn = "onSliderChanged" ->
                 /\ mSliderOpen' = r.open
                 /\ tpc' = [tpc EXCEPT ![t] = "render"]
                 /\ UNCHANGED <<mNotificationState, mAttentionState, mBatteryState,
                                mLcdBacklightOn>>
    /\ UNCHANGED <<mLock, treq, tpend, wlog, ncall, sinks>>
    /\ ThreadFrame

Store2(t) ==
    /\ tpc[t] = "store2"
    /\ LET r == treq[t]
           v == Assigned(r)
       IN CASE r.fn = "setAttentionLight" ->
                 /\ mAttentionState' = v
                 /\ UNCHANGED <<mNotificationState, mBatteryState>>
            [] r.fn = "setBatteryLight" ->
                 /\ mBatteryState' = v
                 /\ UNCHANGED <<mNotificationState, mAttentionState>>
            [] r.fn = "setNotificationLight" ->
                 /\ mNotificationState' = v
                 /\ UNCHANGED <<mAttentionState, mBatteryState>>
    /\ tpc' = [tpc EXCEPT ![t] = "render"]
    /\ UNCHANGED <<mLock, treq, tpend, wlog, ncall, sinks, mLcdBacklightOn, mSliderOpen>>
    /\ ThreadFrame

\* the writes the rest of the handler does, from the members as they are now
Render(t) ==
    /\ tpc[t] = "render"
    /\ LET r == treq[t]
           b0 == rgbToBrightness(r.state)
           brightness == IF lcdMax # DEFAULT_MAX_BRIGHTNESS
                         THEN ScaleToPanel(b0, lcdMax)
                         ELSE b0
           ws == CASE r.fn \in {"setAttentionLight", "setBatteryLight",
                                "setNotificationLight"} ->
                        setSpeakerBatteryLightLocked(mNotificationState, mAttentionState,
                                                     mBatteryState).writes
                   [] r.fn = "setLcdBacklight" ->
                        <<W(LcdSink, brightness)>>
                           \o setKeyboardBacklightLocked(mSliderOpen, mLcdBacklightOn)
                   [] r.fn = "setButtonsBacklight" ->
                        [i \in 1..NumButtons |-> W(<<"mButtonBacklight", i>>, b0)]
                   [] r.fn = "onSliderChanged" ->
                        setKeyboardBacklightLocked(mSliderOpen, mLcdBacklightOn)
       IN tpend' = [tpend EXCEPT ![t] = ws]
    /\ tpc' = [tpc EXCEPT ![t] = "write"]
    /\ UNCHANGED <<mLock, treq, wlog, ncall, sinks>>
    /\ UNCHANGED <<mNotificationState, mAttentionState, mBatteryState,
                   mLcdBacklightOn, mSliderOpen>>
    /\ ThreadFrame

\* one stream << value << std::endl
Write(t) ==
    /\ tpc[t] = "write"
    /\ tpend[t] # <<>>
    /\ sinks' = Apply(sinks, <<Head(tpend[t])>>)
    /\ wlog' = Append(wlog, [id |-> treq[t].id, thread |-> t, w |-> Head(tpend[t])])
    /\ tpend' = [tpend EXCEPT ![t] = Tail(tpend[t])]
    /\ UNCHANGED <<mLock, tpc, treq, ncall>>
    /\ UNCHANGED <<mNotificationState, mAttentionState, mBatteryState,
                   mLcdBacklightOn, mSliderOpen>>
    /\ ThreadFrame

\* the handler returns: the lock_guard goes out of scope
Release(t) ==
    /\ tpc[t] = "write"
    /\ tpend[t] = <<>>
    /\ mLock' = IF mLock = t THEN NoThread ELSE mLock
    /\ tpc' = [tpc EXCEPT ![t] = "idle"]
    /\ UNCHANGED <<treq, tpend, wlog, ncall, sinks>>
    /\ UNCHANGED <<mNotificationState, mAttentionState, mBatteryState,
                   mLcdBacklightOn, mSliderOpen>>
    /\ ThreadFrame

\* request inputs of the main specification
Off == LightState(Pack(0, 0, 0, 0), "NONE", 0, 0)
SteadyRed == LightState(Pack(255, 255, 0, 0), "NONE", 0, 0)
BlinkBlue == LightState(Pack(255, 0, 0, 255), "TIMED", 1000, 500)
AlphaOnly == LightState(Pack(255, 0, 0, 0), "HARDWARE", 0, 0)
DimGreen == LightState(Pack(128, 0, 255, 1), "TIMED", 100, 500)
LightStates == {Off, SteadyRed, BlinkBlue, AlphaOnly, DimGreen}

GpioSecond == [i \in 1..MaxDev |-> IF i = MaxDev THEN "gpio-keys" ELSE "other"]

Request(types, states) ==
    /\ \E type \in types, state \in states : setLight(type, state)
    /\ UNCHANGED <<monitorVars, envVars, threadVars, lcdMax, peer>>

Monitor ==
    \/ MonRestart
    \/ MonOpen
    \/ MonIoctl
    \/ MonSleep
    \/ MonReadFail
    \/ \E ev \in Events : MonRead(ev)

TwoStates == {Off, SteadyRed}

(* The second run: the same service, constructed over the same sinks from a *)
(* zero-filled allocation, served its own sequence of setLight calls on the *)
(* three LED sources.  Only the stored states and the sinks are kept of it. *)
PeerSetLight(type, state) ==
    LET fn == mLights[type]
        notif == IF fn = "setNotificationLight"
                 THEN [state EXCEPT !.color = ApplyUserBrightness(state.color)]
                 ELSE peer.mNotificationState
        attn == IF fn = "setAttentionLight" THEN state ELSE peer.mAttentionState
        batt == IF fn = "setBatteryLight" THEN state ELSE peer.mBatteryState
        r == setSpeakerBatteryLightLocked(notif, attn, batt)
    IN [mNotificationState |-> notif, mAttentionState |-> attn,
        mBatteryState |-> batt, sinks |-> Apply(peer.sinks, r.writes),
        rendered |-> TRUE]

PeerRequest(types, states) ==
    /\ \E type \in types \cap LedTypes, state \in states :
          peer' = PeerSetLight(type, state)
    /\ UNCHANGED <<arbiterVars, monitorVars, envVars, threadVars, lcdMax>>

(* Main specification: requests of every type, the monitor thread, and     *)
(* read failures of the input device.                                       *)
Init == InitWith({DEFAULT_MAX_BRIGHTNESS}, TwoStates, {GpioSecond})

Next ==
    \/ Request(Types, TwoStates)
    \/ Monitor
    \/ FaultChange

Spec == Init /\ [][Next]_vars

(* The shared LED alone: requests on the three LED sources.                 *)
InitLed == InitWith({DEFAULT_MAX_BRIGHTNESS}, LightStates, {GpioSecond})

NextLed == Request(LedTypes, LightStates)

SpecLed == InitLed /\ [][NextLed]_vars

(* The same from a zero-filled allocation: one of the starts InitLed allows. *)
InitLedZero == InitWith({DEFAULT_MAX_BRIGHTNESS}, {Off}, {GpioSecond})

SpecLedZero == InitLedZero /\ [][NextLed]_vars

(* The keyboard backlight: BACKLIGHT requests against the monitor thread.   *)
KbdStates == {Off, SteadyRed, AlphaOnly, BlinkBlue}

InitKbd == InitWith({DEFAULT_MAX_BRIGHTNESS}, {Off}, {GpioSecond})

NextKbd ==
    \/ Request({"BACKLIGHT"}, KbdStates)
    \/ Monitor
    \/ FaultChange

SpecKbd == InitKbd /\ [][NextKbd]_vars

(* Luminance: BUTTONS and BACKLIGHT requests over a grid of colours, for a  *)
(* full-scale panel and a panel of another maximum.                         *)
LumAlpha == {0, 255}
LumChan == {0, 128, 255}
LumStates == {LightState(Pack(a, r, g, b), "NONE", 0, 0) :
                 a \in LumAlpha, r \in LumChan, g \in LumChan, b \in LumChan}

InitLum == InitWith({DEFAULT_MAX_BRIGHTNESS, 100}, {Off}, {GpioSecond})

NextLum == Request({"BUTTONS", "BACKLIGHT"}, LumStates)

SpecLum == InitLum /\ [][NextLum]_vars

(* Blink timing: attention requests over a grid of on-times, with a battery *)
(* source below them.                                                        *)
OnGrid == {-1, 0, 1, 15, 16, 100, 799, 800, 801, 1000, 2147483647}
BlinkStates == {LightState(Pack(255, 255, 128, 0), m, on, off) :
                   m \in {"TIMED", "NONE"}, on \in OnGrid, off \in {0, 500}}

InitBlink == InitWith({DEFAULT_MAX_BRIGHTNESS}, {Off}, {GpioSecond})

NextBlink ==
    \/ Request({"ATTENTION"}, BlinkStates)
    \/ Request({"BATTERY"}, TwoStates)

SpecBlink == InitBlink /\ [][NextBlink]_vars

(* Notification brightness: NOTIFICATIONS requests over a grid of colours   *)
(* and brightness bytes.                                                     *)
AlphaGrid == {0, 1, 128, 254, 255}
ChanGrid == {0, 1, 128, 255}
NotifStates == {LightState(Pack(a, r, g, b), "NONE", 0, 0) :
                   a \in AlphaGrid, r \in ChanGrid, g \in ChanGrid, b \in ChanGrid}

InitNotif == InitWith({DEFAULT_MAX_BRIGHTNESS}, {Off}, {GpioSecond})

NextNotif == Request({"NOTIFICATIONS"}, NotifStates)

SpecNotif == InitNotif /\ [][NextNotif]_vars

(* Concurrency: request threads and the monitor thread, statement by       *)
(* statement, with a device that is there and reads that succeed.           *)
ConcTypes == {"ATTENTION", "BACKLIGHT"}
ConcStates == {SteadyRed}

InitConc == InitWith({DEFAULT_MAX_BRIGHTNESS}, {Off}, {GpioSecond})

NextConc ==
    \/ \E t \in ReqThreads, type \in ConcTypes, state \in ConcStates : Begin(t, type, state)
    \/ \E ev \in Events : MonReadT(ev)
    \/ \E t \in Threads : Acquire(t)
    \/ \E t \in Threads : Store(t)
    \/ \E t \in Threads : Store2(t)
    \/ \E t \in Threads : Render(t)
    \/ \E t \in Threads : Write(t)
    \/ \E t \in Threads : Release(t)
    \/ MonRestart
    \/ MonOpen
    \/ MonIoctl

SpecConc == InitConc /\ [][NextConc]_vars

(* The monitor thread against an input device that comes, goes, is         *)
(* renumbered and fails to read, with BACKLIGHT requests alongside.  The    *)
(* thread is scheduled fairly; the environment is not obliged to anything.  *)
DevConfigs == [1..MaxDev -> DevKinds]

InitMon == InitWith({DEFAULT_MAX_BRIGHTNESS}, {Off}, DevConfigs)

NextMon ==
    \/ Monitor
    \/ \E i \in 0..(MaxDev - 1), k \in DevKinds : DevChange(i, k)
    \/ FaultChange
    \/ Request({"BACKLIGHT"}, {SteadyRed})

SpecMon == InitMon /\ [][NextMon]_vars /\ WF_vars(Monitor)

(* Panel scaling: BACKLIGHT and BUTTONS requests and the slider, for panels  *)
(* of maxima below, at and above full scale, up to the largest a signed     *)
(* 32-bit integer holds; 16843010 is the first maximum whose product with    *)
(* luminance 255 passes 2^32.                                                 *)
PanelMaxima == {0, 1, 100, 255, 256, 1023, 4095, 16843009, 16843010, 2147483647}
White == LightState(Pack(0, 255, 255, 255), "NONE", 0, 0)
Faint == LightState(Pack(255, 1, 2, 3), "NONE", 0, 0)
PanelStates == {Off, White, Faint, AlphaOnly}

InitPanel == InitWith(PanelMaxima, {Off}, {GpioSecond})

NextPanel ==
    \/ Request({"BACKLIGHT", "BUTTONS"}, PanelStates)
    \/ Monitor
    \/ FaultChange

SpecPanel == InitPanel /\ [][NextPanel]_vars

(* The branch of the render: attention requests over every flash mode and   *)
(* over durations below, at and above zero, with a battery source below.    *)
PathColors == {Pack(255, 255, 128, 0), Pack(0, 1, 0, 254)}
PathStates == {LightState(c, m, on, off) :
                  c \in PathColors, m \in {"TIMED", "NONE", "HARDWARE"},
                  on \in {-1, 0, 1, 1000}, off \in {-1, 0, 500}}

InitPath == InitWith({DEFAULT_MAX_BRIGHTNESS}, {Off}, {GpioSecond})

NextPath ==
    \/ Request({"ATTENTION"}, PathStates)
    \/ Request({"BATTERY"}, TwoStates)

SpecPath == InitPath /\ [][NextPath]_vars

(* Notification priority: NOTIFICATIONS requests over the grid of colours   *)
(* and brightness bytes, with attention and battery switched on and off.    *)
NotifPriStates == {LightState(Pack(a, r, g, b), "NONE", 0, 0) :
                      a \in {0, 1, 128, 255}, r \in {0, 1, 255}, g \in {0, 1, 255},
                      b \in {0, 1, 255}}

InitNotifPri == InitWith({DEFAULT_MAX_BRIGHTNESS}, {Off}, {GpioSecond})

NextNotifPri ==
    \/ Request({"NOTIFICATIONS"}, NotifPriStates)
    \/ Request({"ATTENTION", "BATTERY"}, TwoStates)

SpecNotifPri == InitNotifPri /\ [][NextNotifPri]_vars

(* Two runs of the service side by side, each with its own sequence of      *)
(* ATTENTION and BATTERY requests, from the same stored states and sinks.   *)
SteadyGreen == LightState(Pack(255, 0, 255, 0), "NONE", 0, 0)
PairStates == {Off, SteadyRed, SteadyGreen, BlinkBlue}

InitPair == InitWith({DEFAULT_MAX_BRIGHTNESS}, {Off}, {GpioSecond})

NextPair ==
    \/ Request({"ATTENTION", "BATTERY"}, PairStates)
    \/ PeerRequest({"ATTENTION", "BATTERY"}, PairStates)

SpecPair == InitPair /\ [][NextPair]_vars

-----------------------------------------------------------------------------
(* Properties *)

Wrote(ws, sink, val) == \E i \in 1..Len(ws) : ws[i] = W(sink, val)
WritesTo(ws, sink) == \E i \in 1..Len(ws) : ws[i].sink = sink
LedCall == call.op = "setLight" /\ call.type \in LedTypes
AllUnlit == ~isLit(mNotificationState) /\ ~isLit(mAttentionState) /\ ~isLit(mBatteryState)

\* C1: setLight returns SUCCESS for ATTENTION, BACKLIGHT, BATTERY, BUTTONS and
\* NOTIFICATIONS; for every other type it returns LIGHT_NOT_SUPPORTED, writes to
\* no sink and leaves the three stored states, the LCD-on flag and the slider
\* flag as they were.
C1_UnsupportedTypeNoEffect ==
    [][(call' # call /\ call'.op = "setLight") =>
          IF call'.type \in {"ATTENTION", "BACKLIGHT", "BATTERY", "BUTTONS", "NOTIFICATIONS"}
          THEN call'.ret = "SUCCESS"
          ELSE /\ call'.ret = "LIGHT_NOT_SUPPORTED"
               /\ call'.writes = <<>>
               /\ sinks' = sinks
               /\ UNCHANGED <<mNotificationState, mAttentionState, mBatteryState,
                              mLcdBacklightOn, mSliderOpen>>]_vars

\* C1 witness: an unsupported type was refused while the service held a lit
\* source, an open slider and a written LCD sink.
C1_Witness ==
    /\ call.op = "setLight"
    /\ call.type = "KEYBOARD"
    /\ call.ret = "LIGHT_NOT_SUPPORTED"
    /\ mSliderOpen
    /\ mLcdBacklightOn
    /\ isLit(mAttentionState)
    /\ sinks[KbdSink] = DEFAULT_MAX_BRIGHTNESS

\* C2: a request on ATTENTION, BATTERY or NOTIFICATIONS renders the shared LED
\* from the first lit stored state in the order notification, attention,
\* battery: with all three lit its writes are those of rendering the
\* notification state alone, with only attention and battery lit those of
\* rendering the attention state alone.
C2_PriorityRender ==
    LedCall =>
        /\ isLit(mNotificationState) =>
              call.writes = setSpeakerLightLocked(mNotificationState).writes
        /\ (~isLit(mNotificationState) /\ isLit(mAttentionState)) =>
              call.writes = setSpeakerLightLocked(mAttentionState).writes
        /\ (~isLit(mNotificationState) /\ ~isLit(mAttentionState) /\ isLit(mBatteryState)) =>
              call.writes = setSpeakerLightLocked(mBatteryState).writes

\* C2 witness: a battery request arrived with all three sources lit, and the
\* notification state renders differently from the other two.
C2_Witness ==
    /\ LedCall
    /\ call.type = "BATTERY"
    /\ isLit(mNotificationState) /\ isLit(mAttentionState) /\ isLit(mBatteryState)
    /\ setSpeakerLightLocked(mNotificationState) # setSpeakerLightLocked(mAttentionState)
    /\ setSpeakerLightLocked(mNotificationState) # setSpeakerLightLocked(mBatteryState)
    /\ call.writes = setSpeakerLightLocked(mNotificationState).writes

\* C3: when a request turns a lit source's colour to zero RGB and no other
\* stored source is lit, the three brightness sinks and the three
\* blink-enable sinks hold 0 afterwards, whichever branch the render before
\* had taken.
C3_AllOffZeroes ==
    (LedCall /\ call.wasLit /\ AllUnlit) =>
        \A c \in ChannelSet : sinks[LedSink(c)] = 0 /\ sinks[BlinkSink(c)] = 0

\* C3 witness: the last lit source was switched off after a blink render.
C3_Witness ==
    /\ LedCall /\ call.wasLit /\ AllUnlit
    /\ ~isLit(call.state)
    /\ call.prevPath = "blink"
    /\ \A c \in ChannelSet : sinks[LedSink(c)] = 0 /\ sinks[BlinkSink(c)] = 0

SteadyActive == \E c \in ChannelSet : sinks[LedSink(c)] > 0
BlinkActive == \E c \in ChannelSet : sinks[BlinkSink(c)] > 0

\* C4: after every render at most one of off, steady colour, blinking is
\* active, and a render that changes the mode zeroes the enable sinks of the
\* mode it leaves: steady to blinking writes 0 to the three brightness sinks,
\* blinking to steady writes 0 to the three blink-enable sinks.
C4_ModeSwitchZeroesPrevious ==
    LedCall =>
        /\ ~(SteadyActive /\ BlinkActive)
        /\ (call.prevPath = "steady" /\ renderPath = "blink") =>
              \A c \in ChannelSet : Wrote(call.writes, LedSink(c), 0)
        /\ (call.prevPath = "blink" /\ renderPath = "steady") =>
              \A c \in ChannelSet : Wrote(call.writes, BlinkSink(c), 0)

\* C5: once a BACKLIGHT request or a slider event has run, the keyboard sink
\* holds 255 exactly when the slider flag is open and the colour of the last
\* BACKLIGHT request is non-zero, and 0 otherwise; a slider event with the LCD
\* off writes 0.
C5_KeyboardIffOpenAndLcdOn ==
    LET lcdColorNonZero == lastBacklight.seen /\ lastBacklight.state.color # <<0, 0>>
        expected == IF mSliderOpen /\ lcdColorNonZero THEN 255 ELSE 0
    IN /\ (lastBacklight.seen \/ call.op = "onSliderChanged") => sinks[KbdSink] # Unwritten
       /\ sinks[KbdSink] # Unwritten => sinks[KbdSink] = expected
       /\ (call.op = "onSliderChanged" /\ ~lcdColorNonZero) => call.writes = <<W(KbdSink, 0)>>

\* C5 witness: the slider opened after a BACKLIGHT request of colour 0 and the
\* keyboard stayed dark.
C5_Witness ==
    /\ call.op = "onSliderChanged"
    /\ mSliderOpen
    /\ lastBacklight.seen
    /\ lastBacklight.state.color = <<0, 0>>
    /\ sinks[KbdSink] = 0

\* C8: for a colour with channels R, G, B a BUTTONS request writes
\* (77*R + 150*G + 29*B) >> 8 to every button channel and a BACKLIGHT request
\* on a panel of maximum 255 writes the same to the LCD sink, whatever the
\* alpha byte is.
C8_Luminance ==
    call.op = "setLight" =>
        \A a \in LumAlpha, r \in LumChan, g \in LumChan, b \in LumChan :
            call.state.color = Pack(a, r, g, b) =>
                LET lum == (77 * r + 150 * g + 29 * b) \div 256
                IN /\ call.type = "BUTTONS" =>
                        /\ \A s \in ButtonSinks : sinks[s] = lum
                        /\ call.writes = [i \in 1..NumButtons |->
                                             W(<<"mButtonBacklight", i>>, lum)]
                   /\ (call.type = "BACKLIGHT" /\ lcdMax = 255) =>
                        /\ sinks[LcdSink] = lum
                        /\ call.writes[1] = W(LcdSink, lum)

\* C8 witness: a BUTTONS request with a non-zero alpha byte after a BACKLIGHT
\* request of the same RGB and another alpha byte, on a full-scale panel.
C8_Witness ==
    /\ call.op = "setLight" /\ call.type = "BUTTONS"
    /\ call.state.color = Pack(255, 255, 128, 0)
    /\ lastBacklight.seen /\ lastBacklight.state.color = Pack(0, 255, 128, 0)
    /\ lcdMax = 255
    /\ sinks[LcdSink] = 151
    /\ \A s \in ButtonSinks : sinks[s] = 151

Winner ==
    IF isLit(mNotificationState) THEN mNotificationState
    ELSE IF isLit(mAttentionState) THEN mAttentionState
    ELSE mBatteryState

\* C9: when the winning state is TIMED with onMs > 0 and offMs > 0, all three
\* channels get the same ramp step and pause-high: step 50 and pauseHi
\* onMs - 800 for onMs >= 800, else step onMs div 16 and pauseHi 0; pauseHi is
\* never negative; pause-low is offMs on all three.
C9_BlinkTiming ==
    (LedCall /\ ~AllUnlit /\ Winner.flashMode = "TIMED"
        /\ Winner.flashOnMs > 0 /\ Winner.flashOffMs > 0) =>
        LET on == Winner.flashOnMs
            step == IF on >= 800 THEN 50 ELSE on \div 16
            hi == IF on >= 800 THEN on - 800 ELSE 0
        IN \A c \in ChannelSet :
              /\ Wrote(call.writes, RampStepSink(c), step)
              /\ Wrote(call.writes, PauseHiSink(c), hi)
              /\ Wrote(call.writes, PauseLoSink(c), Winner.flashOffMs)
              /\ sinks[RampStepSink(c)] = step
              /\ sinks[PauseHiSink(c)] = hi
              /\ sinks[PauseLoSink(c)] = Winner.flashOffMs
              /\ sinks[PauseHiSink(c)] >= 0

\* C9 witness: onMs = 100 gave step 6 and pauseHi 0 after onMs = 1000 had
\* given pauseHi 200 (the branch of the render before was the blink branch).
C9_Witness ==
    /\ LedCall /\ call.type = "ATTENTION"
    /\ Winner = mAttentionState
    /\ Winner.flashMode = "TIMED" /\ Winner.flashOnMs = 100 /\ Winner.flashOffMs = 500
    /\ call.prevPath = "blink"
    /\ \A c \in ChannelSet : sinks[RampStepSink(c)] = 6 /\ sinks[PauseHiSink(c)] = 0

\* C10: a NOTIFICATIONS request of colour C with brightness byte b stores,
\* for 0 < b < 255, the colour whose channels are (channel * b) div 255 and
\* whose top byte is 0, and for b = 0 or b = 255 the colour C itself.
C10_NotificationBrightness ==
    (call.op = "setLight" /\ call.type = "NOTIFICATIONS") =>
        \A a \in AlphaGrid, r \in ChanGrid, g \in ChanGrid, b \in ChanGrid :
            call.state.color = Pack(a, r, g, b) =>
                mNotificationState.color =
                    IF 0 < a /\ a < 255
                    THEN Pack(0, (r * a) \div 255, (g * a) \div 255, (b * a) \div 255)
                    ELSE Pack(a, r, g, b)

\* C10 witness: 0x80FF0000 was stored as red 128, green 0, blue 0.
C10_Witness ==
    /\ call.op = "setLight" /\ call.type = "NOTIFICATIONS"
    /\ call.state.color = Pack(128, 255, 0, 0)
    /\ mNotificationState.color = Pack(0, 128, 0, 0)

InSection(t) == tpc[t] \in {"store", "store2", "render", "write"}

\* C6: with request threads and the monitor thread running handlers
\* concurrently, at most one is between its state update and the end of its
\* render; the sink writes of one call are a contiguous block of the global
\* write order; no handler reads the stored states while another is half way
\* through assigning one.
C6_HandlersSerialized ==
    /\ Cardinality({t \in Threads : InSection(t)}) <= 1
    /\ \A t \in Threads : InSection(t) => mLock = t
    /\ \A i, k \in 1..Len(wlog) :
          (i + 1 < k /\ wlog[i].id # wlog[i + 1].id) => wlog[k].id # wlog[i].id
    /\ \A t, u \in Threads : (t # u /\ tpc[t] = "render") => tpc[u] # "store2"

\* C6 witness: a request thread is in the middle of its writes, after another
\* call's writes, while the monitor thread waits for the lock.
C6_Witness ==
    \E t \in ReqThreads :
        /\ tpc[t] = "write" /\ tpend[t] # <<>>
        /\ \E i \in 1..Len(wlog) : wlog[i].id = treq[t].id
        /\ \E i \in 1..Len(wlog) : wlog[i].id # treq[t].id
        /\ tpc[MonitorThread] = "lock"

\* the scan of openInputDeviceByName finds gpio-keys: it is /dev/input/event<i>
\* and every lower-numbered node can be opened
Resolvable ==
    \E i \in 0..(MaxDev - 1) :
        /\ devs[i + 1] = "gpio-keys"
        /\ \A j \in 0..(i - 1) : devs[j + 1] \notin {"absent", "gpio-keys"}

BrightnessSinks == {LcdSink, KbdSink} \cup ButtonSinks

\* the values the brightness sinks hold and the last handler wrote to them
\* are all within 0..limit(sink)
BrightnessWithin(limit(_)) ==
    /\ \A s \in BrightnessSinks : sinks[s] # Unwritten => sinks[s] \in 0..limit(s)
    /\ \A i \in 1..Len(call.writes) :
          call.writes[i].sink \in BrightnessSinks =>
              call.writes[i].val \in 0..limit(call.writes[i].sink)

\* C11 as stated: every value written to the LCD, keyboard and button
\* brightness sinks lies in 0..255, for every request colour and every panel
\* maximum the service is constructed with.
C11_BrightnessWithin255 ==
    LET limit(s) == 255
    IN BrightnessWithin(limit)

\* C11 amended: every value written to the keyboard and button sinks lies in
\* 0..255 and every value written to the LCD sink lies in 0..M, M the panel
\* maximum the service is constructed with (so in 0..255 when M <= 255).
C11_BrightnessWithinPanel ==
    LET limit(s) == IF s = LcdSink THEN lcdMax ELSE 255
    IN BrightnessWithin(limit)

\* C11 witness: on a panel of maximum 1023 a white BACKLIGHT request wrote
\* 1023 to the LCD sink, with the keyboard lit and the buttons at 255.
C11_Witness ==
    /\ call.op = "setLight" /\ call.type = "BACKLIGHT"
    /\ call.state = White
    /\ lcdMax = 1023
    /\ sinks[LcdSink] = 1023
    /\ sinks[KbdSink] = 255
    /\ \A s \in ButtonSinks : sinks[s] = 255

\* the monitor reads an event that passes its filter and runs the callback
SliderEvent == \E ev \in Events : Wanted(ev) /\ MonRead(ev)

(* A step that completes a handler leaves its record in call; a step that  *)
(* repeats the call recorded last, from the state that call left, changes  *)
(* nothing at all.                                                          *)

\* C12: a slider-change event changes only the slider flag and the keyboard
\* sink: it writes to no LCD, button or LED sink (brightness, blink-enable,
\* duty table, start index, pause-low, pause-high, ramp step), and leaves the
\* three stored states and the LCD-on flag as they were.
C12_SliderEventFrame ==
    [][(call' # call /\ call'.op = "onSliderChanged") =>
          /\ \A i \in 1..Len(call'.writes) : call'.writes[i].sink = KbdSink
          /\ \A s \in SinkNames \ {KbdSink} : sinks'[s] = sinks[s]
          /\ UNCHANGED <<mNotificationState, mAttentionState, mBatteryState,
                         mLcdBacklightOn>>]_vars

\* C12 witness: the slider opened and lit the keyboard while the LED, the LCD
\* and the buttons held what earlier requests had written.
C12_Witness ==
    /\ call.op = "onSliderChanged" /\ call.open
    /\ sinks[KbdSink] = 255
    /\ sinks[LedSink("Red")] = 255
    /\ sinks[LcdSink] = 76
    /\ \A s \in ButtonSinks : sinks[s] = 76
    /\ isLit(mAttentionState)

\* C13: no setLight call changes the slider flag, which only the monitor's
\* callback changes; setLight on ATTENTION, BATTERY or NOTIFICATIONS writes to
\* no LCD, keyboard or button sink; setLight on BACKLIGHT or BUTTONS writes to
\* no LED sink and leaves the three stored states as they were.
C13_SetLightFrame ==
    /\ [][mSliderOpen' # mSliderOpen => SliderEvent]_vars
    /\ [][(call' # call /\ call'.op = "setLight") =>
             /\ mSliderOpen' = mSliderOpen
             /\ call'.type \in LedTypes =>
                   /\ \A i \in 1..Len(call'.writes) :
                         call'.writes[i].sink \notin BrightnessSinks
                   /\ \A s \in BrightnessSinks : sinks'[s] = sinks[s]
             /\ call'.type \in {"BACKLIGHT", "BUTTONS"} =>
                   /\ \A i \in 1..Len(call'.writes) :
                         call'.writes[i].sink \notin LedSinks
                   /\ \A s \in LedSinks : sinks'[s] = sinks[s]
                   /\ UNCHANGED <<mNotificationState, mAttentionState,
                                  mBatteryState>>]_vars

\* C13 witness: an ATTENTION request switched the LED off while the slider
\* was open and the keyboard, the LCD and the buttons stayed lit.
C13_Witness ==
    /\ call.op = "setLight" /\ call.type = "ATTENTION" /\ call.wasLit
    /\ ~isLit(mAttentionState)
    /\ mSliderOpen
    /\ sinks[KbdSink] = 255
    /\ sinks[LcdSink] = 76
    /\ \A s \in ButtonSinks : sinks[s] = 76

\* C14: the monitor runs the slider callback exactly for the events it reads
\* of type 5 (switch) and code 0 (lid), one callback per event before the next
\* read, with open = TRUE iff the value is 0; any other event changes no
\* state of the service and writes to no sink.
C14_EventFilter ==
    [][\A ev \in Events :
          MonRead(ev) =>
             IF ev[1] = 5 /\ ev[2] = 0
             THEN /\ call'.op = "onSliderChanged"
                  /\ call'.open = (ev[3] = 0)
                  /\ mSliderOpen' = (ev[3] = 0)
             ELSE /\ call'.op # "onSliderChanged"
                  /\ call'.writes = <<>>
                  /\ UNCHANGED <<mNotificationState, mAttentionState, mBatteryState,
                                 mLcdBacklightOn, mSliderOpen, sinks>>]_vars

\* C14 witness: an event that is not the lid switch was read and dropped
\* with the slider open and the keyboard lit.
C14_Witness ==
    /\ call.op = "ignoredEvent"
    /\ mpc = "read"
    /\ mSliderOpen
    /\ mLcdBacklightOn
    /\ sinks[KbdSink] = 255

\* C15: the render takes the blink path iff the winning state's flash mode
\* is TIMED and flashOnMs and flashOffMs are both positive; otherwise it takes
\* the steady path and writes the raw R, G, B to the brightness sinks; on the
\* blink path the start indices written are 0, 8, 16 for red, green, blue and
\* each duty table has 8 entries, entry i being RAMP[i] * channel div 255 for
\* RAMP = {0,12,25,37,50,72,85,100}, each within 0..100.
C15_BlinkPath ==
    (LedCall /\ ~AllUnlit) =>
        LET w == Winner
            expectBlink == w.flashMode = "TIMED" /\ w.flashOnMs > 0 /\ w.flashOffMs > 0
            RAMP == <<0, 12, 25, 37, 50, 72, 85, 100>>
            chan == [c \in ChannelSet |->
                        CASE c = "Red" -> w.color[1] % 256
                          [] c = "Green" -> w.color[2] \div 256
                          [] c = "Blue" -> w.color[2] % 256]
            idx == [c \in ChannelSet |->
                       CASE c = "Red" -> 0 [] c = "Green" -> 8 [] c = "Blue" -> 16]
        IN /\ (renderPath = "blink") <=> expectBlink
           /\ ~expectBlink =>
                 /\ renderPath = "steady"
                 /\ \A c \in ChannelSet :
                       /\ Wrote(call.writes, LedSink(c), chan[c])
                       /\ sinks[LedSink(c)] = chan[c]
           /\ expectBlink =>
                 \A c \in ChannelSet :
                    /\ Wrote(call.writes, StartIdxSink(c), idx[c])
                    /\ sinks[StartIdxSink(c)] = idx[c]
                    /\ Wrote(call.writes, DutySink(c), sinks[DutySink(c)])
                    /\ Len(sinks[DutySink(c)]) = 8
                    /\ \A i \in 1..8 :
                          /\ sinks[DutySink(c)][i] = (RAMP[i] * chan[c]) \div 255
                          /\ sinks[DutySink(c)][i] \in 0..100

\* C15 witness: a TIMED attention request with positive durations took the
\* blink path after a steady render, and green 128 got the table
\* 0,6,12,18,25,36,42,50 at start index 8.
C15_Witness ==
    /\ LedCall /\ call.type = "ATTENTION"
    /\ call.state = LightState(Pack(255, 255, 128, 0), "TIMED", 1000, 500)
    /\ call.prevPath = "steady"
    /\ renderPath = "blink"
    /\ sinks[StartIdxSink("Green")] = 8
    /\ sinks[DutySink("Green")] = <<0, 6, 12, 18, 25, 36, 42, 50>>
    /\ sinks[DutySink("Red")] = <<0, 12, 25, 37, 50, 72, 85, 100>>

\* every sink a render of `state` alone would write holds that value
SinksShow(state) ==
    LET ws == setSpeakerLightLocked(state).writes
    IN \A i \in 1..Len(ws) : sinks[ws[i].sink] = ws[i].val

NotificationCall == call.op = "setLight" /\ call.type = "NOTIFICATIONS"

\* C16 as stated: after setLight(NOTIFICATIONS, C) with C of non-zero RGB the
\* shared LED is rendered from the notification state, whatever the stored
\* attention and battery states are and whatever the brightness byte of C is.
C16_NotificationAlwaysWins ==
    (NotificationCall /\ isLit(call.state)) => SinksShow(mNotificationState)

\* C16 amended: after setLight(NOTIFICATIONS, C) the stored notification
\* colour has non-zero RGB exactly when C has non-zero RGB and either the
\* brightness byte b of C is 0 or 255 or some channel c of C has c * b >= 255;
\* in that case the shared LED is rendered from the notification state
\* whatever the stored attention and battery states are, and otherwise from
\* the attention state if lit, else the battery state if lit, else off.
C16_NotificationWinsIfStoredLit ==
    NotificationCall =>
        LET b == call.state.color[1] \div 256
            red == call.state.color[1] % 256
            green == call.state.color[2] \div 256
            blue == call.state.color[2] % 256
            staysLit == /\ red + green + blue > 0
                        /\ \/ b = 0
                           \/ b = 255
                           \/ red * b >= 255
                           \/ green * b >= 255
                           \/ blue * b >= 255
        IN /\ isLit(mNotificationState) <=> staysLit
           /\ staysLit =>
                 /\ call.writes = setSpeakerLightLocked(mNotificationState).writes
                 /\ SinksShow(mNotificationState)
           /\ ~staysLit =>
                 call.writes =
                    IF isLit(mAttentionState)
                    THEN setSpeakerLightLocked(mAttentionState).writes
                    ELSE IF isLit(mBatteryState)
                    THEN setSpeakerLightLocked(mBatteryState).writes
                    ELSE LightsOff

\* C16 witness: 0x01FF0101 was stored as 0x00010000 and rendered as red 1
\* over a lit attention and a lit battery state.
C16_Witness ==
    /\ NotificationCall
    /\ call.state.color = Pack(1, 255, 1, 1)
    /\ mNotificationState.color = Pack(0, 1, 0, 0)
    /\ isLit(mAttentionState) /\ isLit(mBatteryState)
    /\ sinks[LedSink("Red")] = 1
    /\ sinks[LedSink("Green")] = 0

\* C17: after a render the shared-LED sinks depend only on the three stored
\* states: two sequences of setLight calls that start from the same sink
\* values and end with the same stored notification, attention and battery
\* states leave the red, green and blue brightness and blink-enable sinks
\* with the same values.  (A sink only one of the two runs has written to is
\* not compared: what it held at the start is not known.)
C17_SinksDependOnStoredOnly ==
    (/\ LedCall
     /\ peer.rendered
     /\ peer.mNotificationState = mNotificationState
     /\ peer.mAttentionState = mAttentionState
     /\ peer.mBatteryState = mBatteryState) =>
        \A s \in {LedSink(c) : c \in ChannelSet} \cup {BlinkSink(c) : c \in ChannelSet} :
            (sinks[s] # Unwritten /\ peer.sinks[s] # Unwritten) => sinks[s] = peer.sinks[s]

\* C18: on a panel of maximum 255, in every reachable state in which the last
\* value written to the keyboard sink is non-zero, the last value written to
\* the LCD sink is non-zero too: the keyboard is never lit while the panel
\* brightness written is 0.
C18_KeyboardLitImpliesLcdLit ==
    (lcdMax = 255 /\ sinks[KbdSink] # Unwritten /\ sinks[KbdSink] # 0) =>
        (sinks[LcdSink] # Unwritten /\ sinks[LcdSink] # 0)

BlinkWinner ==
    /\ LedCall /\ ~AllUnlit
    /\ Winner.flashMode = "TIMED" /\ Winner.flashOnMs > 0 /\ Winner.flashOffMs > 0

\* C19 as stated: whenever the render takes the blink path (flash mode TIMED,
\* flashOnMs > 0, flashOffMs > 0) the ramp step written to each channel is at
\* least 1 millisecond.
C19_RampStepAtLeastOne ==
    BlinkWinner =>
        \A c \in ChannelSet :
            \A i \in 1..Len(call.writes) :
                call.writes[i].sink = RampStepSink(c) => call.writes[i].val >= 1

\* C19 amended: whenever the render takes the blink path, the ramp step
\* written to each channel is at least 1 millisecond if flashOnMs >= 16, and
\* is 0 if flashOnMs is in 1..15.
C19_RampStepAtLeastOneFrom16 ==
    BlinkWinner =>
        \A c \in ChannelSet :
            /\ \E i \in 1..Len(call.writes) : call.writes[i].sink = RampStepSink(c)
            /\ \A i \in 1..Len(call.writes) :
                  call.writes[i].sink = RampStepSink(c) =>
                     IF Winner.flashOnMs >= 16
                     THEN call.writes[i].val >= 1
                     ELSE call.writes[i].val = 0

\* C19 witness: flashOnMs = 16 gave the ramp step 1 on all three channels.
C19_Witness ==
    /\ BlinkWinner
    /\ Winner.flashOnMs = 16
    /\ renderPath = "blink"
    /\ \A c \in ChannelSet : sinks[RampStepSink(c)] = 1

\* C20: across open failures, name mismatches and read failures the monitor
\* thread holds at most one open input-device descriptor at a time: a
\* descriptor is opened only when none is open, so one that did not match is
\* closed before the next is opened, and the one in use is closed before the
\* resolution starts again after a read failure.
C20_AtMostOneDescriptor ==
    /\ [](Cardinality(openFds) <= 1)
    /\ [](mpc \in {"restart", "open", "sleep"} => openFds = {})
    /\ [](mpc \in {"ioctl", "read"} => \E d \in openFds : d.fd = fd /\ openFds = {d})
    /\ [][{d.fd : d \in openFds'} \ {d.fd : d \in openFds} # {} => openFds = {}]_vars
    /\ [][(mpc = "read" /\ mpc' # "read") => openFds' = {}]_vars

\* C20 witness: after a failure the thread went through event0, which is
\* another device, closed it, and now reads from gpio-keys on event1 with
\* that one descriptor open.
C20_Witness ==
    /\ everFailed
    /\ mpc = "read"
    /\ devs[1] = "other"
    /\ fd = 1
    /\ openFds = {[fd |-> 1, name |-> "gpio-keys", alive |-> TRUE]}

=============================================================================
